---- MODULE Spec2Model ----
(***************************************************************************)
(* Model of cmd/main.go: an HTTP service with five handlers over one       *)
(* MongoDB collection of Person documents, plus the process lifecycle      *)
(* (init, main).  Strings that the code parses or formats (hex             *)
(* identifiers) are sequences of one-character strings; ObjectIDs are      *)
(* byte sequences; BSON values carry their type, because the store         *)
(* compares _id values type-sensitively.                                   *)
(***************************************************************************)
EXTENDS Integers, Sequences, FiniteSets, TLC

VARIABLES pc, connected, listened, collection, last

vars == <<pc, connected, listened, collection, last>>

----------------------------------------------------------------------------
(* Bounds *)

\* Largest number of documents the collection is allowed to grow to.
MaxDocs == 2

----------------------------------------------------------------------------
(* primitive.ObjectID and its hex form *)

\* Bytes in an ObjectID.  The driver's type is [12]byte; the model keeps
\* the same parsing and formatting rules over a shorter array.
OIDBytes == 1

HexLen == 2 * OIDBytes

HexDigits == <<"0","1","2","3","4","5","6","7","8","9","a","b","c","d","e","f">>

UpperDigits == <<"0","1","2","3","4","5","6","7","8","9","A","B","C","D","E","F">>

\* encoding/hex fromHexChar: value of a hex digit of either case, -1 if none.
FromHexChar(c) ==
    IF \E i \in 1..16 : HexDigits[i] = c
    THEN (CHOOSE i \in 1..16 : HexDigits[i] = c) - 1
    ELSE IF \E i \in 1..16 : UpperDigits[i] = c
    THEN (CHOOSE i \in 1..16 : UpperDigits[i] = c) - 1
    ELSE -1

NilObjectID == [i \in 1..OIDBytes |-> 0]

IsZero(oid) == oid = NilObjectID

\* ObjectID.Hex / MarshalJSON: two lower-case digits per byte.
Hex(oid) ==
    [i \in 1..HexLen |->
        IF i % 2 = 1 THEN HexDigits[(oid[(i + 1) \div 2] \div 16) + 1]
                     ELSE HexDigits[(oid[i \div 2] % 16) + 1]]

\* primitive.ObjectIDFromHex: length check, then hex.Decode.
ObjectIDFromHex(s) ==
    IF Len(s) # HexLen
    THEN [err |-> "ErrInvalidHex", oid |-> NilObjectID]
    ELSE IF \E i \in 1..HexLen : FromHexChar(s[i]) < 0
    THEN [err |-> "InvalidByteError", oid |-> NilObjectID]
    ELSE [err |-> "",
          oid |-> [i \in 1..OIDBytes |->
                     16 * FromHexChar(s[2 * i - 1]) + FromHexChar(s[2 * i])]]

\* ObjectID.UnmarshalJSON on a JSON string: "" decodes to NilObjectID,
\* any other string must be the hex form of an ObjectID.
UnmarshalObjectID(s) ==
    IF Len(s) = 0
    THEN [err |-> "", oid |-> NilObjectID]
    ELSE LET r == ObjectIDFromHex(s)
         IN IF r.err # ""
            THEN [err |-> "JSONDecodeError", oid |-> NilObjectID]
            ELSE r

----------------------------------------------------------------------------
(* Inputs *)

Nibbles == {0, 10}

ByteVals == {16 * h + l : h \in Nibbles, l \in Nibbles}

ObjectIDs == [1..OIDBytes -> ByteVals]

\* Values of the {id} path variable: well-formed identifiers in both
\* cases, a wrong character, a wrong length.
PathIds ==
    { <<"0","a">>, <<"a","0">>, <<"a","a">>, <<"A","0">>,
      <<"g","0">>, <<"a">> }

\* Values of the "id" member of a request body.
BodyIds ==
    { <<>>, <<"0","0">>, <<"0","a">>, <<"A","0">>, <<"g","0">> }

Fields ==
    { [name |-> "Ann", age |-> 30, address |-> "1 Main St"],
      [name |-> "Bob", age |-> 41, address |-> "2 Oak Ave"] }

\* A request body: not decodable as a Person at all (ok = FALSE), or a JSON
\* object with the three fields and possibly an "id" member.
BadBody ==
    [ok |-> FALSE, hasId |-> FALSE, id |-> <<>>,
     name |-> "", age |-> 0, address |-> ""]

NoBody == BadBody

Bodies ==
    {BadBody}
    \cup { [ok |-> TRUE, hasId |-> FALSE, id |-> <<>>,
            name |-> f.name, age |-> f.age, address |-> f.address] : f \in Fields }
    \cup { [ok |-> TRUE, hasId |-> TRUE, id |-> s,
            name |-> f.name, age |-> f.age, address |-> f.address] :
            s \in BodyIds, f \in Fields }

\* Outcome of the store round trip of a request: it works, the call itself
\* returns an error, or (cursor only) a later batch fails while iterating.
Faults == {"none", "call"}

ListFaults == Faults \cup {"iter"}

----------------------------------------------------------------------------
(* Person, JSON and BSON *)

\* json.Decoder.Decode into a Person.
DecodeBody(b) ==
    LET zero == [ID |-> NilObjectID, Name |-> "", Age |-> 0, Address |-> ""]
        u    == UnmarshalObjectID(b.id)
    IN IF ~b.ok
       THEN [err |-> "JSONDecodeError", person |-> zero]
       ELSE IF b.hasId /\ u.err # ""
       THEN [err |-> u.err, person |-> zero]
       ELSE [err |-> "",
             person |-> [ID |-> IF b.hasId THEN u.oid ELSE NilObjectID,
                         Name |-> b.name, Age |-> b.age, Address |-> b.address]]

\* json.Encoder.Encode of a Person.  omitempty never drops the id: an array
\* type is empty only when its length is zero.
EncodePerson(p) ==
    [id |-> Hex(p.ID), name |-> p.Name, age |-> p.Age, address |-> p.Address]

\* BSON values, tagged with their type.
OidVal(oid) == [type |-> "objectId", oid |-> oid, str |-> <<>>]

StrVal(s) == [type |-> "string", oid |-> NilObjectID, str |-> s]

\* bson.Marshal of a Person: _id is omitted when the ObjectID is zero.
MarshalPerson(p) ==
    [hasId |-> ~IsZero(p.ID), id |-> OidVal(p.ID),
     name |-> p.Name, age |-> p.Age, address |-> p.Address]

\* cur.Decode / SingleResult.Decode of a stored document into a Person.
DecodeDoc(d) ==
    IF d.id.type # "objectId"
    THEN [err |-> "BSONDecodeError",
          person |-> [ID |-> NilObjectID, Name |-> "", Age |-> 0, Address |-> ""]]
    ELSE [err |-> "",
          person |-> [ID |-> d.id.oid, Name |-> d.name,
                      Age |-> d.age, Address |-> d.address]]

----------------------------------------------------------------------------
(* Responses *)

NoOut == [kind |-> "none", items |-> <<>>, text |-> ""]

EmptyOut == [kind |-> "empty", items |-> <<>>, text |-> ""]

NullOut == [kind |-> "null", items |-> <<>>, text |-> ""]

TextOut(t) == [kind |-> "text", items |-> <<>>, text |-> t]

ObjectOut(p) == [kind |-> "object", items |-> <<EncodePerson(p)>>, text |-> ""]

ArrayOut(jsons) == [kind |-> "array", items |-> jsons, text |-> ""]

Resp(op, id, body, fault, status, out, calls, err) ==
    [op |-> op, id |-> id, body |-> body, fault |-> fault,
     status |-> status, out |-> out, calls |-> calls, err |-> err]

\* handleError: http.Error with StatusInternalServerError and the error text.
handleError(op, id, body, fault, calls, err) ==
    Resp(op, id, body, fault, 500, TextOut(err), calls, err)

----------------------------------------------------------------------------
(* The collection: a sequence of documents in natural (insertion) order,  *)
(* each [id, name, age, address] with id a typed BSON value.              *)

Matching(coll, filter) == {i \in 1..Len(coll) : coll[i].id = filter}

First(S) == CHOOSE i \in S : \A j \in S : i <= j

Remove(coll, i) ==
    [j \in 1..(Len(coll) - 1) |-> IF j < i THEN coll[j] ELSE coll[j + 1]]

\* Find whose cursor loses the first document.
FindSkipsFirst(coll, fault, k) ==
    IF fault = "call"
    THEN [err |-> "StoreError", docs |-> <<>>]
    ELSE IF fault = "iter"
    THEN [err |-> "", docs |-> SubSeq(coll, 2, k)]
    ELSE [err |-> "", docs |-> SubSeq(coll, 2, Len(coll))]

\* Collection.Find with the empty filter, then the documents cur.Next hands
\* out: all of them, or only the first k when a later batch fails.  Next
\* returns false on exhaustion and on error alike.
Find(coll, fault, k) ==
    IF fault = "call"
    THEN [err |-> "StoreError", docs |-> <<>>]
    ELSE IF fault = "iter"
    THEN [err |-> "", docs |-> SubSeq(coll, 1, k)]
    ELSE [err |-> "", docs |-> coll]

\* Collection.FindOne(filter) followed by SingleResult.Decode's error.
FindOne(coll, filter, fault) ==
    IF fault = "call"
    THEN [err |-> "StoreError", found |-> FALSE, at |-> 0]
    ELSE IF Matching(coll, filter) = {}
    THEN [err |-> "ErrNoDocuments", found |-> FALSE, at |-> 0]
    ELSE [err |-> "", found |-> TRUE, at |-> First(Matching(coll, filter))]

\* Collection.InsertOne: a document that carries an _id keeps it (and
\* collides with an equal stored _id); otherwise the _id is generated.
InsertOne(coll, doc, gen, fault) ==
    LET id == IF doc.hasId THEN doc.id ELSE OidVal(gen)
    IN IF fault = "call"
       THEN [err |-> "StoreError", coll |-> coll, id |-> id]
       ELSE IF Matching(coll, id) # {}
       THEN [err |-> "DuplicateKey", coll |-> coll, id |-> id]
       ELSE [err |-> "",
             coll |-> Append(coll, [id |-> id, name |-> doc.name,
                                    age |-> doc.age, address |-> doc.address]),
             id |-> id]

\* UpdateOne with upsert: a filter that matches nothing inserts a document.
UpdateOneUpsert(coll, filter, doc, fault) ==
    IF fault = "call"
    THEN [err |-> "StoreError", coll |-> coll]
    ELSE IF Matching(coll, filter) = {}
    THEN [err |-> "",
          coll |-> Append(coll, [id |-> filter, name |-> doc.name,
                                 age |-> doc.age, address |-> doc.address])]
    ELSE LET i == First(Matching(coll, filter))
         IN [err |-> "",
             coll |-> [coll EXCEPT ![i] =
                         [id |-> coll[i].id, name |-> doc.name,
                          age |-> doc.age, address |-> doc.address]]]

\* Collection.UpdateOne(filter, {$set: doc}) without upsert: the first
\* matching document gets the fields of doc; _id may not change.
UpdateOne(coll, filter, doc, fault) ==
    IF fault = "call"
    THEN [err |-> "StoreError", coll |-> coll]
    ELSE IF Matching(coll, filter) = {}
    THEN [err |-> "", coll |-> coll]
    ELSE LET i == First(Matching(coll, filter))
         IN IF doc.hasId /\ doc.id # coll[i].id
            THEN [err |-> "ImmutableField", coll |-> coll]
            ELSE [err |-> "",
                  coll |-> [coll EXCEPT ![i] =
                              [id |-> coll[i].id, name |-> doc.name,
                               age |-> doc.age, address |-> doc.address]]]

\* Collection.DeleteOne(filter): removes the first matching document.
DeleteOne(coll, filter, fault) ==
    IF fault = "call"
    THEN [err |-> "StoreError", coll |-> coll]
    ELSE IF Matching(coll, filter) = {}
    THEN [err |-> "", coll |-> coll]
    ELSE [err |-> "", coll |-> Remove(coll, First(Matching(coll, filter)))]

----------------------------------------------------------------------------
(* Handlers.  Each yields the collection after the request and the         *)
(* response: status, body, number of store calls made, error cause.       *)

\* A Go slice of Person: nil until the first append.
NilSlice == [isNil |-> TRUE, elems |-> <<>>]

GoAppend(s, x) == [isNil |-> FALSE, elems |-> Append(s.elems, x)]

\* json.Encoder.Encode of []Person: a nil slice is written as null.
EncodePeople(s) ==
    IF s.isNil THEN NullOut
    ELSE ArrayOut([i \in 1..Len(s.elems) |-> EncodePerson(s.elems[i])])

\* The loop of GetPeople: decode each document and append it.
RECURSIVE CollectPeople(_, _, _)
CollectPeople(docs, i, people) ==
    IF i > Len(docs)
    THEN [err |-> "", people |-> people]
    ELSE LET d == DecodeDoc(docs[i])
         IN IF d.err # ""
            THEN [err |-> d.err, people |-> people]
            ELSE CollectPeople(docs, i + 1, GoAppend(people, d.person))

GetPeople(coll, fault, k) ==
    LET cur == Find(coll, fault, k)
        got == CollectPeople(cur.docs, 1, NilSlice)
    IN IF cur.err # ""
       THEN [coll |-> coll,
             resp |-> handleError("LIST", <<>>, NoBody, fault, 1, cur.err)]
       ELSE IF got.err # ""
       THEN [coll |-> coll,
             resp |-> handleError("LIST", <<>>, NoBody, fault, 1, got.err)]
       ELSE [coll |-> coll,
             resp |-> Resp("LIST", <<>>, NoBody, fault, 200,
                           EncodePeople(got.people), 1, "")]

\* GetPerson without the return after the parse error: the zero ObjectID
\* is looked up in the store.
GetPersonNoReturn(coll, id, fault) ==
    LET parsed == ObjectIDFromHex(id)
        result == FindOne(coll, OidVal(parsed.oid), fault)
        dec    == DecodeDoc(coll[result.at])
    IN IF result.err # ""
       THEN [coll |-> coll,
             resp |-> handleError("GET", id, NoBody, fault, 1, result.err)]
       ELSE IF dec.err # ""
       THEN [coll |-> coll,
             resp |-> handleError("GET", id, NoBody, fault, 1, dec.err)]
       ELSE [coll |-> coll,
             resp |-> Resp("GET", id, NoBody, fault, 200,
                           ObjectOut(dec.person), 1, "")]

GetPerson(coll, id, fault) ==
    LET parsed == ObjectIDFromHex(id)
        result == FindOne(coll, OidVal(parsed.oid), fault)
        dec    == DecodeDoc(coll[result.at])
    IN IF parsed.err # ""
       THEN [coll |-> coll,
             resp |-> handleError("GET", id, NoBody, fault, 0, parsed.err)]
       ELSE IF result.err # ""
       THEN [coll |-> coll,
             resp |-> handleError("GET", id, NoBody, fault, 1, result.err)]
       ELSE IF dec.err # ""
       THEN [coll |-> coll,
             resp |-> handleError("GET", id, NoBody, fault, 1, dec.err)]
       ELSE [coll |-> coll,
             resp |-> Resp("GET", id, NoBody, fault, 200,
                           ObjectOut(dec.person), 1, "")]

\* CreatePerson that answers with the decoded Person, InsertedID unused.
CreatePersonNoId(coll, body, gen, fault) ==
    LET dec    == DecodeBody(body)
        result == InsertOne(coll, MarshalPerson(dec.person), gen, fault)
    IN IF dec.err # ""
       THEN [coll |-> coll,
             resp |-> handleError("POST", <<>>, body, fault, 0, dec.err)]
       ELSE IF result.err # ""
       THEN [coll |-> result.coll,
             resp |-> handleError("POST", <<>>, body, fault, 1, result.err)]
       ELSE [coll |-> result.coll,
             resp |-> Resp("POST", <<>>, body, fault, 201,
                           ObjectOut(dec.person), 1, "")]

CreatePerson(coll, body, gen, fault) ==
    LET dec    == DecodeBody(body)
        result == InsertOne(coll, MarshalPerson(dec.person), gen, fault)
        person == [dec.person EXCEPT !.ID = result.id.oid]
    IN IF dec.err # ""
       THEN [coll |-> coll,
             resp |-> handleError("POST", <<>>, body, fault, 0, dec.err)]
       ELSE IF result.err # ""
       THEN [coll |-> result.coll,
             resp |-> handleError("POST", <<>>, body, fault, 1, result.err)]
       ELSE [coll |-> result.coll,
             resp |-> Resp("POST", <<>>, body, fault, 201,
                           ObjectOut(person), 1, "")]

UpdatePerson(coll, id, body, fault) ==
    LET dec    == DecodeBody(body)
        result == UpdateOne(coll, StrVal(id), MarshalPerson(dec.person), fault)
    IN IF dec.err # ""
       THEN [coll |-> coll,
             resp |-> handleError("PUT", id, body, fault, 0, dec.err)]
       ELSE IF result.err # ""
       THEN [coll |-> result.coll,
             resp |-> handleError("PUT", id, body, fault, 1, result.err)]
       ELSE [coll |-> result.coll,
             resp |-> Resp("PUT", id, body, fault, 200,
                           ObjectOut(dec.person), 1, "")]

DeletePerson(coll, id, fault) ==
    LET result == DeleteOne(coll, StrVal(id), fault)
    IN IF result.err # ""
       THEN [coll |-> result.coll,
             resp |-> handleError("DELETE", id, NoBody, fault, 1, result.err)]
       ELSE [coll |-> result.coll,
             resp |-> Resp("DELETE", id, NoBody, fault, 204, EmptyOut, 1, "")]

----------------------------------------------------------------------------
(* Process lifecycle and requests *)

NoResp == Resp("NONE", <<>>, NoBody, "none", 0, NoOut, 0, "")

Init ==
    /\ pc = "init"
    /\ connected = FALSE
    /\ listened = FALSE
    /\ collection = <<>>
    /\ last = NoResp

InitOutcomes == {"noenv", "nouri", "connecterr", "pingerr", "ok"}

\* init(): load .env, read URI, connect, ping; log.Fatal on any failure.
\* A failed ping exits with the client created by Connect still open.
InitFn ==
    /\ pc = "init"
    /\ \E o \in InitOutcomes :
         /\ pc' = IF o = "ok" THEN "main" ELSE "exited"
         /\ connected' = (o \in {"pingerr", "ok"})
    /\ UNCHANGED <<listened, collection, last>>

\* main(): the routes are registered and ListenAndServe starts serving.
MainListen ==
    /\ pc = "main"
    /\ pc' = "serving"
    /\ listened' = TRUE
    /\ UNCHANGED <<connected, collection, last>>

\* main(): ListenAndServe returns its error (at once when the port cannot
\* be bound, later when the listener stops) into log.Fatal, which exits
\* the process with os.Exit; the deferred Disconnect does not run.
MainFatal ==
    /\ pc \in {"main", "serving"}
    /\ pc' = "exited"
    /\ UNCHANGED <<connected, listened, collection, last>>

Serve(r) ==
    /\ collection' = r.coll
    /\ last' = r.resp
    /\ UNCHANGED <<pc, connected, listened>>

ReqGetPeople ==
    /\ pc = "serving"
    /\ \E fault \in ListFaults, k \in 1..MaxDocs :
         /\ IF fault = "iter" THEN k < Len(collection) ELSE k = 1
         /\ Serve(GetPeople(collection, fault, k))

ReqGetPerson ==
    /\ pc = "serving"
    /\ \E id \in PathIds, fault \in Faults :
         Serve(GetPerson(collection, id, fault))

\* The store generates an ObjectID that no stored document carries.
GenIds(coll) ==
    {o \in ObjectIDs : ~IsZero(o) /\ Matching(coll, OidVal(o)) = {}}

ReqCreatePerson ==
    /\ pc = "serving"
    /\ \E body \in Bodies, fault \in Faults, gen \in GenIds(collection) :
         LET r == CreatePerson(collection, body, gen, fault)
         IN /\ Len(r.coll) <= MaxDocs
            /\ Serve(r)

ReqUpdatePerson ==
    /\ pc = "serving"
    /\ \E id \in PathIds, body \in Bodies, fault \in Faults :
         LET r == UpdatePerson(collection, id, body, fault)
         IN /\ Len(r.coll) <= MaxDocs
            /\ Serve(r)

ReqDeletePerson ==
    /\ pc = "serving"
    /\ \E id \in PathIds, fault \in Faults :
         Serve(DeletePerson(collection, id, fault))

Next ==
    \/ InitFn
    \/ MainListen
    \/ MainFatal
    \/ ReqGetPeople
    \/ ReqGetPerson
    \/ ReqCreatePerson
    \/ ReqUpdatePerson
    \/ ReqDeletePerson

Spec == Init /\ [][Next]_vars

----------------------------------------------------------------------------
(* Vocabulary of the properties *)

HexChars == {HexDigits[i] : i \in 1..16} \cup {UpperDigits[i] : i \in 1..16}

\* A well-formed identifier string: the right length, hex digits only.
WellFormed(s) == Len(s) = HexLen /\ \A i \in 1..Len(s) : s[i] \in HexChars

\* Two identifier strings that differ at most in the case of their digits.
SameHex(a, b) ==
    /\ Len(a) = Len(b)
    /\ \A i \in 1..Len(a) : FromHexChar(a[i]) = FromHexChar(b[i])

\* Positions of the stored records whose identifier is written x.
StoredAs(coll, x) ==
    {i \in 1..Len(coll) :
        /\ coll[i].id.type = "objectId"
        /\ WellFormed(x)
        /\ SameHex(Hex(coll[i].id.oid), x)}

\* What GET /people/x and GET /people answer in a state, store working.
GetNow(coll, x) == GetPerson(coll, x, "none").resp

ListNow(coll) == GetPeople(coll, "none", 1).resp

SameFields(a, b) ==
    a.name = b.name /\ a.age = b.age /\ a.address = b.address

SuccessStatus(op) ==
    CASE op = "POST" -> 201
      [] op = "DELETE" -> 204
      [] OTHER -> 200

----------------------------------------------------------------------------
(* C1 - C10 *)

\* C1: after DELETE /people/X answers (store working) the status is 204 and
\* no record is stored under X any more: GET /people/X answers 500 and
\* GET /people lists no record with id X.
C1_DeleteRemovesRecord ==
    (last.op = "DELETE" /\ last.fault = "none") =>
        /\ last.status = 204
        /\ StoredAs(collection, last.id) = {}
        /\ GetNow(collection, last.id).status = 500
        /\ \A i \in 1..Len(ListNow(collection).out.items) :
              ~SameHex(ListNow(collection).out.items[i].id, last.id)

\* C2: after PUT /people/X with body P answers 200, every record stored
\* under X has P's name, age and address, and GET /people/X returns them
\* with id X.
C2_UpdateReplacesFields ==
    (last.op = "PUT" /\ last.status = 200) =>
        \A i \in StoredAs(collection, last.id) :
            /\ SameFields(collection[i], last.body)
            /\ GetNow(collection, last.id).status = 200
            /\ SameFields(GetNow(collection, last.id).out.items[1], last.body)
            /\ SameHex(GetNow(collection, last.id).out.items[1].id, last.id)

\* C3: POST /people with a JSON Person body, with or without an "id"
\* member, does not fail because of that member (store working), and the
\* id of the returned Person is never the one the client supplied.
C3_CreateIgnoresClientId ==
    (last.op = "POST" /\ last.body.ok /\ last.fault = "none") =>
        /\ last.status = 201
        /\ ~(/\ last.body.hasId
             /\ WellFormed(last.body.id)
             /\ SameHex(last.out.items[1].id, last.body.id))

\* C4: when POST /people with P answers 201 with Person C, C carries P's
\* three fields, GET /people/{C.id} answers 200 with exactly C, and that
\* answer stays the same across every later request that is not an update
\* or delete of that id.
C4_CreateGetRoundTrip ==
    /\ [](  (last.op = "POST" /\ last.status = 201) =>
              /\ last.out.kind = "object"
              /\ SameFields(last.out.items[1], last.body)
              /\ GetNow(collection, last.out.items[1].id).status = 200
              /\ GetNow(collection, last.out.items[1].id).out = last.out )
    /\ [][ \A o \in ObjectIDs :
             ( /\ collection' # collection
               /\ GetNow(collection, Hex(o)).status = 200
               /\ ~(last'.op \in {"PUT", "DELETE"} /\ SameHex(last'.id, Hex(o))) )
             => GetNow(collection', Hex(o)) = GetNow(collection, Hex(o)) ]_vars

C4_Witness ==
    /\ last.op = "POST"
    /\ last.status = 201
    /\ Len(collection) >= 2
    /\ GetNow(collection, last.out.items[1].id).status = 200

C6_EmptyListIsArray ==
    (last.op = "LIST" /\ last.fault = "none" /\ collection = <<>>) =>
        /\ last.status = 200
        /\ last.out.kind = "array"
        /\ last.out.items = <<>>

\* C7: for an id under which no record is stored (store working),
\* DELETE /people/{id} answers 204 and PUT /people/{id} with a decodable
\* body answers 200 with the input Person; neither adds a record.
C7_NonExistenceLeniency ==
    [][ ( /\ pc = "serving"
          /\ last'.op \in {"PUT", "DELETE"}
          /\ last'.fault = "none"
          /\ StoredAs(collection, last'.id) = {}
          /\ (last'.op = "PUT" => DecodeBody(last'.body).err = "") )
        => /\ last'.err = ""
           /\ last'.op = "DELETE" =>
                 (last'.status = 204 /\ last'.out.kind = "empty")
           /\ last'.op = "PUT" =>
                 /\ last'.status = 200
                 /\ last'.out.kind = "object"
                 /\ SameFields(last'.out.items[1], last'.body)
           /\ Len(collection') <= Len(collection) ]_vars

C7_Witness ==
    /\ last.op = "PUT"
    /\ last.status = 200
    /\ StoredAs(collection, last.id) = {}
    /\ Len(collection) >= 1

\* C8: GET /people/{id} with an identifier that is not well formed answers
\* 500 from parsing, without any store call, with a cause other than the
\* one a well-formed identifier without a record gets (not found, after
\* one store call, also 500).
C8_InvalidIdNeverReachesStore ==
    (last.op = "GET") =>
        /\ ~WellFormed(last.id) =>
              /\ last.status = 500
              /\ last.calls = 0
              /\ last.err \in {"ErrInvalidHex", "InvalidByteError"}
              /\ last.err # GetNow(<<>>, Hex(NilObjectID)).err
        /\ ( /\ WellFormed(last.id)
             /\ last.fault = "none"
             /\ StoredAs(collection, last.id) = {} ) =>
              /\ last.status = 500
              /\ last.calls = 1
              /\ last.err = "ErrNoDocuments"

C8_Witness ==
    /\ last.op = "GET"
    /\ ~WellFormed(last.id)
    /\ last.calls = 0
    /\ last.status = 500
    /\ Len(collection) >= 1

\* C9: every answered request has the status of the fixed mapping: without
\* a failure 200 for List, Get and Update, 201 for Create, 204 with an
\* empty body for Delete; with any failure (store fault or error cause)
\* 500 with the error text; a Create or Update whose body does not decode
\* makes no store call.
C9_StatusMapping ==
    (last.op # "NONE") =>
        /\ (last.fault # "none" \/ last.err # "") =>
              /\ last.status = 500
              /\ last.out.kind = "text"
              /\ last.out.text # ""
        /\ (last.fault = "none" /\ last.err = "") =>
              /\ last.status = SuccessStatus(last.op)
              /\ last.op = "DELETE" => last.out.kind = "empty"
        /\ (last.op \in {"POST", "PUT"} /\ DecodeBody(last.body).err # "") =>
              (last.status = 500 /\ last.calls = 0)

\* C10: requests are served only with the store connected and pinged; a
\* process that exits without having listened served nothing; and when the
\* process has exited after listening, the store connection is closed.
C10_LifecycleOrdering ==
    /\ pc = "serving" => connected
    /\ ~listened => last.op = "NONE"
    /\ (pc = "exited" /\ listened) => ~connected

====
